---- MODULE Spec2Model ----
(***************************************************************************)
(* Clinical decision support: feature encoding (app/ml/preprocessor.py),   *)
(* prediction orchestration and rule-based fallback (app/ml/predictor.py), *)
(* driven by the prediction endpoint (app/api/v1/endpoints/prediction.py). *)
(*                                                                         *)
(* Encoding of Python values:                                              *)
(*   - a str is a sequence of one-character strings;                       *)
(*   - None in a str-typed field is PyNone, a non-str list item is PyInt;  *)
(*   - a missing number (None) is NoneNum;                                 *)
(*   - temperatures are in tenths of a degree C (38.2 -> 382);             *)
(*   - confidences are in hundredths (0.82 -> 82);                         *)
(*   - feature values are in units of 1/Scale (1.0 -> 3000), which makes   *)
(*     every normalisation of the encoder exact.                           *)
(***************************************************************************)
EXTENDS Integers, Sequences, FiniteSets, Bags, TLC

\* ------------------------------------------------------------------------
\* Python values
\* ------------------------------------------------------------------------
PyNone == <<"None">>
PyInt == <<"int">>
NoneNum == -1
Scale == 3000

IsStr(v) == v # PyNone /\ v # PyInt

UpperChars == <<"A","B","C","D","E","F","G","H","I","J","K","L","M","N","O","P","Q","R","S","T","U","V","W","X","Y","Z">>
LowerChars == <<"a","b","c","d","e","f","g","h","i","j","k","l","m","n","o","p","q","r","s","t","u","v","w","x","y","z">>

\* str.lower()
lower(s) ==
    [i \in 1..Len(s) |->
        IF \E k \in 1..26 : UpperChars[k] = s[i]
        THEN LowerChars[CHOOSE k \in 1..26 : UpperChars[k] = s[i]]
        ELSE s[i]]

\* str.strip(): drop leading and trailing whitespace
strip(s) ==
    LET nonws == {i \in 1..Len(s) : s[i] # " "}
        Min(S) == CHOOSE x \in S : \A y \in S : x <= y
        Max(S) == CHOOSE x \in S : \A y \in S : x >= y
    IN IF nonws = {} THEN << >> ELSE SubSeq(s, Min(nonws), Max(nonws))

\* Python's  needle in hay  for two str (the empty str is in every str)
contains(hay, needle) ==
    \E i \in 0..(Len(hay) - Len(needle)) : SubSeq(hay, i + 1, i + Len(needle)) = needle

\* str.count(): non-overlapping occurrences, scanning from the left
RECURSIVE count_from(_, _, _)
count_from(hay, needle, i) ==
    IF i + Len(needle) - 1 > Len(hay) THEN 0
    ELSE IF SubSeq(hay, i, i + Len(needle) - 1) = needle
         THEN 1 + count_from(hay, needle, i + Len(needle))
         ELSE count_from(hay, needle, i + 1)

count(hay, needle) == count_from(hay, needle, 1)

zeros(n) == [i \in 1..n |-> 0]

\* ------------------------------------------------------------------------
\* DataPreprocessor: vocabularies
\* ------------------------------------------------------------------------
\* the symptom terms, in construction order (slot = position - 1)
common_symptoms ==
    << <<"f","e","v","e","r">>,  \* 0 fever
       <<"c","o","u","g","h">>,  \* 1 cough
       <<"f","a","t","i","g","u","e">>,  \* 2 fatigue
       <<"h","e","a","d","a","c","h","e">>,  \* 3 headache
       <<"n","a","u","s","e","a">>,  \* 4 nausea
       <<"v","o","m","i","t","i","n","g">>,  \* 5 vomiting
       <<"d","i","a","r","r","h","e","a">>,  \* 6 diarrhea
       <<"c","o","n","s","t","i","p","a","t","i","o","n">>,  \* 7 constipation
       <<"c","h","e","s","t"," ","p","a","i","n">>,  \* 8 chest pain
       <<"a","b","d","o","m","i","n","a","l"," ","p","a","i","n">>,  \* 9 abdominal pain
       <<"s","h","o","r","t","n","e","s","s"," ","o","f"," ","b","r","e","a","t","h">>,  \* 10 shortness of breath
       <<"d","i","z","z","i","n","e","s","s">>,  \* 11 dizziness
       <<"w","e","a","k","n","e","s","s">>,  \* 12 weakness
       <<"j","o","i","n","t"," ","p","a","i","n">>,  \* 13 joint pain
       <<"m","u","s","c","l","e"," ","p","a","i","n">>,  \* 14 muscle pain
       <<"s","o","r","e"," ","t","h","r","o","a","t">>,  \* 15 sore throat
       <<"r","u","n","n","y"," ","n","o","s","e">>,  \* 16 runny nose
       <<"c","o","n","g","e","s","t","i","o","n">>,  \* 17 congestion
       <<"r","a","s","h">>,  \* 18 rash
       <<"i","t","c","h","i","n","g">>,  \* 19 itching
       <<"s","w","e","l","l","i","n","g">>,  \* 20 swelling
       <<"d","i","f","f","i","c","u","l","t","y"," ","s","w","a","l","l","o","w","i","n","g">>,  \* 21 difficulty swallowing
       <<"p","r","o","d","u","c","t","i","v","e"," ","c","o","u","g","h">>,  \* 22 productive cough
       <<"d","r","y"," ","c","o","u","g","h">>,  \* 23 dry cough
       <<"n","i","g","h","t"," ","s","w","e","a","t","s">>,  \* 24 night sweats
       <<"c","h","i","l","l","s">>,  \* 25 chills
       <<"l","o","s","s"," ","o","f"," ","a","p","p","e","t","i","t","e">>,  \* 26 loss of appetite
       <<"w","e","i","g","h","t"," ","l","o","s","s">>,  \* 27 weight loss
       <<"w","e","i","g","h","t"," ","g","a","i","n">>,  \* 28 weight gain
       <<"i","n","s","o","m","n","i","a">> >>  \* 29 insomnia

\* the past-medical-history terms, in construction order
common_conditions ==
    << <<"h","y","p","e","r","t","e","n","s","i","o","n">>,  \* 0 hypertension
       <<"d","i","a","b","e","t","e","s">>,  \* 1 diabetes
       <<"h","e","a","r","t"," ","d","i","s","e","a","s","e">>,  \* 2 heart disease
       <<"a","s","t","h","m","a">>,  \* 3 asthma
       <<"c","o","p","d">>,  \* 4 copd
       <<"c","a","n","c","e","r">>,  \* 5 cancer
       <<"s","t","r","o","k","e">>,  \* 6 stroke
       <<"k","i","d","n","e","y"," ","d","i","s","e","a","s","e">>,  \* 7 kidney disease
       <<"l","i","v","e","r"," ","d","i","s","e","a","s","e">>,  \* 8 liver disease
       <<"a","r","t","h","r","i","t","i","s">>,  \* 9 arthritis
       <<"d","e","p","r","e","s","s","i","o","n">>,  \* 10 depression
       <<"a","n","x","i","e","t","y">>,  \* 11 anxiety
       <<"t","h","y","r","o","i","d"," ","d","i","s","o","r","d","e","r">>,  \* 12 thyroid disorder
       <<"h","i","g","h"," ","c","h","o","l","e","s","t","e","r","o","l">>,  \* 13 high cholesterol
       <<"o","b","e","s","i","t","y">>,  \* 14 obesity
       <<"o","s","t","e","o","p","o","r","o","s","i","s">>,  \* 15 osteoporosis
       <<"a","l","l","e","r","g","i","e","s">>,  \* 16 allergies
       <<"m","i","g","r","a","i","n","e","s">>,  \* 17 migraines
       <<"s","l","e","e","p"," ","a","p","n","e","a">>,  \* 18 sleep apnea
       <<"g","a","s","t","r","o","e","s","o","p","h","a","g","e","a","l"," ","r","e","f","l","u","x">> >>  \* 19 gastroesophageal reflux

\* the keyword list scanned in free text, in order
medical_keywords ==
    << <<"p","a","i","n">>,  \* 0 pain
       <<"s","e","v","e","r","e">>,  \* 1 severe
       <<"m","i","l","d">>,  \* 2 mild
       <<"m","o","d","e","r","a","t","e">>,  \* 3 moderate
       <<"c","h","r","o","n","i","c">>,  \* 4 chronic
       <<"a","c","u","t","e">>,  \* 5 acute
       <<"o","n","s","e","t">>,  \* 6 onset
       <<"d","u","r","a","t","i","o","n">>,  \* 7 duration
       <<"f","r","e","q","u","e","n","c","y">>,  \* 8 frequency
       <<"r","a","d","i","a","t","i","o","n">>,  \* 9 radiation
       <<"q","u","a","l","i","t","y">>,  \* 10 quality
       <<"a","s","s","o","c","i","a","t","e","d">>,  \* 11 associated
       <<"r","e","l","i","e","v","e","d">>,  \* 12 relieved
       <<"w","o","r","s","e","n","e","d">>,  \* 13 worsened
       <<"i","m","p","r","o","v","e","d">>,  \* 14 improved
       <<"p","r","o","g","r","e","s","s","i","v","e">>,  \* 15 progressive
       <<"i","n","t","e","r","m","i","t","t","e","n","t">>,  \* 16 intermittent
       <<"c","o","n","s","t","a","n","t">>,  \* 17 constant
       <<"b","u","r","n","i","n","g">>,  \* 18 burning
       <<"s","h","a","r","p">>,  \* 19 sharp
       <<"d","u","l","l">>,  \* 20 dull
       <<"t","h","r","o","b","b","i","n","g">>,  \* 21 throbbing
       <<"c","r","a","m","p","i","n","g">>,  \* 22 cramping
       <<"p","r","e","s","s","u","r","e">>,  \* 23 pressure
       <<"t","i","g","h","t","n","e","s","s">>,  \* 24 tightness
       <<"a","c","h","i","n","g">>,  \* 25 aching
       <<"s","t","a","b","b","i","n","g">>,  \* 26 stabbing
       <<"s","h","o","o","t","i","n","g">>,  \* 27 shooting
       <<"t","i","n","g","l","i","n","g">>,  \* 28 tingling
       <<"n","u","m","b","n","e","s","s">>,  \* 29 numbness
       <<"w","e","a","k","n","e","s","s">>,  \* 30 weakness
       <<"s","w","e","l","l","i","n","g">>,  \* 31 swelling
       <<"i","n","f","l","a","m","m","a","t","i","o","n">>,  \* 32 inflammation
       <<"i","n","f","e","c","t","i","o","n">>,  \* 33 infection
       <<"b","l","e","e","d","i","n","g">>,  \* 34 bleeding
       <<"d","i","s","c","h","a","r","g","e">>,  \* 35 discharge
       <<"l","e","s","i","o","n">>,  \* 36 lesion
       <<"m","a","s","s">>,  \* 37 mass
       <<"n","o","d","u","l","e">>,  \* 38 nodule
       <<"g","r","o","w","t","h">>,  \* 39 growth
       <<"u","l","c","e","r">>,  \* 40 ulcer
       <<"w","o","u","n","d">>,  \* 41 wound
       <<"t","r","a","u","m","a">>,  \* 42 trauma
       <<"i","n","j","u","r","y">>,  \* 43 injury
       <<"f","r","a","c","t","u","r","e">>,  \* 44 fracture
       <<"s","p","r","a","i","n">>,  \* 45 sprain
       <<"s","t","r","a","i","n">>,  \* 46 strain
       <<"t","e","a","r">>,  \* 47 tear
       <<"d","y","s","f","u","n","c","t","i","o","n">>,  \* 48 dysfunction
       <<"f","a","i","l","u","r","e">>,  \* 49 failure
       <<"o","b","s","t","r","u","c","t","i","o","n">>,  \* 50 obstruction
       <<"s","t","e","n","o","s","i","s">>,  \* 51 stenosis
       <<"d","i","l","a","t","i","o","n">> >>  \* 52 dilation

\* mutant: the slots are numbered from 1
load_vocabulary_from_one(terms) ==
    [t \in {terms[k] : k \in 1..Len(terms)} |->
        CHOOSE k \in 1..Len(terms) : terms[k] = t /\ \A j \in (k + 1)..Len(terms) : terms[j] # t]

\* {term: idx for idx, term in enumerate(terms)}: a term listed twice keeps
\* its last index
load_vocabulary(terms) ==
    [t \in {terms[k] : k \in 1..Len(terms)} |->
        (CHOOSE k \in 1..Len(terms) : terms[k] = t /\ \A j \in (k + 1)..Len(terms) : terms[j] # t) - 1]

symptom_vocab == load_vocabulary(common_symptoms)
pmh_vocab == load_vocabulary(common_conditions)

\* value returned by a call that may raise: exc = "none" and val, or exc set
Ok(v) == [exc |-> "none", val |-> v]
Raise(e) == [exc |-> e, val |-> << >>]

\* ------------------------------------------------------------------------
\* DataPreprocessor: encoders
\* ------------------------------------------------------------------------
\* the six demographic / vital scalars
preprocess_vitals(data) ==
    << data.age * 30,
       IF data.sex = "male" THEN 0 ELSE IF data.sex = "female" THEN Scale ELSE Scale \div 2,
       IF data.vital_temperature_c # NoneNum THEN (data.vital_temperature_c - 370) * 60 ELSE 0,
       IF data.vital_heart_rate # NoneNum THEN (data.vital_heart_rate - 70) * 60 ELSE 0,
       IF data.vital_blood_pressure_systolic # NoneNum
          THEN (data.vital_blood_pressure_systolic - 120) * 75 ELSE 0,
       IF data.vital_blood_pressure_diastolic # NoneNum
          THEN (data.vital_blood_pressure_diastolic - 80) * 150 ELSE 0 >>

\* mutant: the scan of the vocabulary does not stop at the first related term
encode_term_no_break(vec, term, vocab, partial) ==
    LET cleaned == strip(lower(term))
        exact == {k \in 1..Len(vocab) : vocab[k] = cleaned}
        fuzzy == {k \in 1..Len(vocab) : contains(vocab[k], cleaned) \/ contains(cleaned, vocab[k])}
    IN IF exact # {} THEN [vec EXCEPT ![CHOOSE k \in exact : TRUE] = Scale]
       ELSE [k \in 1..Len(vec) |-> IF k \in fuzzy THEN partial ELSE vec[k]]

\* one iteration of the loop over the input terms: the direct match writes 1.0,
\* otherwise the first vocabulary term (in construction order) that contains
\* the cleaned term or is contained in it gets the partial weight
encode_term(vec, term, vocab, partial) ==
    LET cleaned == strip(lower(term))
        slot_of == IF vocab = common_symptoms THEN symptom_vocab ELSE pmh_vocab
        fuzzy == {k \in 1..Len(vocab) : contains(vocab[k], cleaned) \/ contains(cleaned, vocab[k])}
        first == CHOOSE k \in fuzzy : \A j \in fuzzy : k <= j
    IN IF cleaned \in DOMAIN slot_of THEN [vec EXCEPT ![slot_of[cleaned] + 1] = Scale]
       ELSE IF fuzzy # {} THEN [vec EXCEPT ![first] = partial]
       ELSE vec

RECURSIVE encode_terms(_, _, _, _, _)
encode_terms(term_list, i, vec, vocab, partial) ==
    IF i > Len(term_list) THEN Ok(vec)
    ELSE IF ~IsStr(term_list[i]) THEN Raise("AttributeError")
    ELSE encode_terms(term_list, i + 1, encode_term(vec, term_list[i], vocab, partial), vocab, partial)

preprocess_symptoms(symptom_list) ==
    encode_terms(symptom_list, 1, zeros(Len(common_symptoms)), common_symptoms, (7 * Scale) \div 10)

preprocess_pmh(pmh_list) ==
    encode_terms(pmh_list, 1, zeros(Len(common_conditions)), common_conditions, (8 * Scale) \div 10)

\* keyword weights min(count / 3.0, 1.0); an empty text gives the fixed-size vector
preprocess_text(text) ==
    IF text = << >> \/ text = PyNone THEN zeros(50)
    ELSE LET text_lower == lower(text)
         IN [i \in 1..Len(medical_keywords) |->
                LET c == count(text_lower, medical_keywords[i])
                IN IF c * (Scale \div 3) < Scale THEN c * (Scale \div 3) ELSE Scale]

\* the complete pipeline: vitals, symptoms, history, text, concatenated
preprocess_input(data) ==
    LET vitals == preprocess_vitals(data)
        symptoms == preprocess_symptoms(data.symptom_list)
        pmh == preprocess_pmh(data.pmh_list)
    IN IF symptoms.exc # "none" THEN symptoms
       ELSE IF pmh.exc # "none" THEN pmh
       ELSE IF ~IsStr(data.free_text_notes) \/ ~IsStr(data.chief_complaint) THEN Raise("TypeError")
       ELSE Ok(vitals \o symptoms.val \o pmh.val
               \o preprocess_text(data.free_text_notes \o <<" ">> \o data.chief_complaint))

\* the train-time encoder keeps its values in units of 1/TrainScale, so that
\* (age - 18) / 82 is exact
TrainScale == 123000
w_high_blood_pressure == <<"h","i","g","h"," ","b","l","o","o","d"," ","p","r","e","s","s","u","r","e">>  \* "high blood pressure"

\* _process_single_sample(input_data, normalize=False) of a preprocessor whose
\* text vectorizer was not fitted: raw vitals (tenths for the temperature, a
\* missing one stays None), exact matches only, 50 text columns
process_single_sample(input_data) ==
    LET raw(v, unit) == IF v = NoneNum THEN NoneNum ELSE v * unit
        vital_features ==
            << (input_data.age - 18) * (TrainScale \div 82),
               IF input_data.sex = "male" THEN TrainScale ELSE 0,
               raw(input_data.vital_temperature_c, TrainScale \div 10),
               raw(input_data.vital_heart_rate, TrainScale),
               raw(input_data.vital_blood_pressure_systolic, TrainScale),
               raw(input_data.vital_blood_pressure_diastolic, TrainScale) >>
        symptoms == input_data.symptom_list
        pmh_list == input_data.pmh_list
        variation(condition_clean) ==
            IF contains(condition_clean, common_conditions[2]) THEN common_conditions[2]
            ELSE IF contains(condition_clean, common_conditions[1])
                    \/ contains(condition_clean, w_high_blood_pressure) THEN common_conditions[1]
            ELSE condition_clean
        symptom_features ==
            [k \in 1..Len(common_symptoms) |->
                IF \E i \in 1..Len(symptoms) :
                      /\ IsStr(symptoms[i])
                      /\ strip(lower(symptoms[i])) \in DOMAIN symptom_vocab
                      /\ symptom_vocab[strip(lower(symptoms[i]))] + 1 = k
                THEN TrainScale ELSE 0]
        pmh_features ==
            [k \in 1..Len(common_conditions) |->
                IF \E i \in 1..Len(pmh_list) :
                      /\ IsStr(pmh_list[i])
                      /\ variation(strip(lower(pmh_list[i]))) \in DOMAIN pmh_vocab
                      /\ pmh_vocab[variation(strip(lower(pmh_list[i])))] + 1 = k
                THEN TrainScale ELSE 0]
    IN vital_features \o symptom_features \o pmh_features \o zeros(50)

\* the number of features the preprocessor reports
get_feature_dim(pre) ==
    IF ~pre.is_fitted
    THEN 3 + 4 + Len(common_symptoms) + Len(common_conditions) + 50
    ELSE IF pre.feature_dim # NoneNum THEN pre.feature_dim ELSE 106

\* ------------------------------------------------------------------------
\* ClinicalPredictor: reference catalogs
\* ------------------------------------------------------------------------
\* a mapping {0: row, 1: row, ...} built by enumerate() over the query result
enumerate(rows) == [idx \in 0..(Len(rows) - 1) |-> rows[idx + 1]]

icd10_fallback ==
    << [code |-> "J18.9", description |-> "Pneumonia, unspecified organism"],
       [code |-> "R50.9", description |-> "Fever, unspecified"],
       [code |-> "R51", description |-> "Headache"],
       [code |-> "R69", description |-> "Illness, unspecified"] >>

test_fallback ==
    << [test |-> "Complete Blood Count (CBC)"],
       [test |-> "Chest X-ray (PA/AP)"],
       [test |-> "Basic Metabolic Panel"] >>

medication_fallback ==
    << [medication |-> "Acetaminophen"],
       [medication |-> "Ibuprofen"],
       [medication |-> "Amoxicillin"] >>

\* a query either raises (ok = FALSE) or returns the active rows in order
load_icd10_mapping_from_db(q) == IF q.ok THEN enumerate(q.rows) ELSE enumerate(icd10_fallback)

\* mutant: a failed query leaves the test catalog empty
load_test_mapping_from_db_empty(q) == IF q.ok THEN enumerate(q.rows) ELSE << >>

load_test_mapping_from_db(q) == IF q.ok THEN enumerate(q.rows) ELSE enumerate(test_fallback)
load_medication_mapping_from_db(q) == IF q.ok THEN enumerate(q.rows) ELSE enumerate(medication_fallback)

\* len(mapping) of a dict
dict_len(mapping) == Cardinality(DOMAIN mapping)

\* ------------------------------------------------------------------------
\* ClinicalPredictor: rule-based fallback
\* ------------------------------------------------------------------------
DiseasePrediction(code, diagnosis, confidence, tests, meds) ==
    [icd10_code |-> code, diagnosis |-> diagnosis, confidence |-> confidence,
     recommended_tests |-> tests, recommended_medications |-> meds]

TestRecommendation(test, confidence) == [test |-> test, confidence |-> confidence]
MedicationRecommendation(medication, confidence) == [medication |-> medication, confidence |-> confidence]

w_cough == <<"c","o","u","g","h">>
w_headache == <<"h","e","a","d","a","c","h","e">>

\* any(word in s.lower() for s in symptoms): stops at the first hit, raises on
\* the first non-str item reached before a hit
RECURSIVE any_in(_, _, _)
any_in(word, symptoms, i) ==
    IF i > Len(symptoms) THEN "false"
    ELSE IF ~IsStr(symptoms[i]) THEN "raise"
    ELSE IF contains(lower(symptoms[i]), word) THEN "true"
    ELSE any_in(word, symptoms, i + 1)

\* truth value of  temp and temp > threshold
temp_above(temp, threshold) == temp # NoneNum /\ temp # 0 /\ temp > threshold

pneumonia ==
    DiseasePrediction("J18.9", "Pneumonia, unspecified organism", 82,
        << TestRecommendation("Chest X-ray (PA/AP)", 90), TestRecommendation("Complete Blood Count (CBC)", 80) >>,
        << MedicationRecommendation("Amoxicillin-clavulanate", 78) >>)

fever ==
    DiseasePrediction("R50.9", "Fever, unspecified", 65,
        << TestRecommendation("Complete Blood Count (CBC)", 80), TestRecommendation("Urinalysis", 60) >>,
        << MedicationRecommendation("Acetaminophen", 90) >>)

headache ==
    DiseasePrediction("R51", "Headache", 70,
        << TestRecommendation("Basic Metabolic Panel", 50) >>,
        << MedicationRecommendation("Ibuprofen", 85) >>)

bronchitis ==
    DiseasePrediction("J40", "Bronchitis, not specified as acute or chronic", 68,
        << TestRecommendation("Chest X-ray (PA/AP)", 70) >>,
        << MedicationRecommendation("Dextromethorphan", 75) >>)

general_exam ==
    DiseasePrediction("Z00.00", "Encounter for general adult medical examination without abnormal findings", 40,
        << TestRecommendation("Complete Blood Count (CBC)", 60) >>, << >>)

\* mutant: Rule 2 is an if of its own instead of an elif
rules_fever_no_elif(temp, symptoms) ==
    LET r1 == IF temp_above(temp, 380) THEN any_in(w_cough, symptoms, 1) ELSE "false"
    IN IF r1 = "raise" THEN Raise("AttributeError")
       ELSE Ok((IF r1 = "true" THEN << pneumonia >> ELSE << >>)
               \o (IF temp_above(temp, 375) THEN << fever >> ELSE << >>))

\* Rule 1 / Rule 2: the if / elif on the temperature
rules_fever(temp, symptoms) ==
    LET r1 == IF temp_above(temp, 380) THEN any_in(w_cough, symptoms, 1) ELSE "false"
    IN IF r1 = "raise" THEN Raise("AttributeError")
       ELSE IF r1 = "true" THEN Ok(<< pneumonia >>)
       ELSE IF temp_above(temp, 375) THEN Ok(<< fever >>)
       ELSE Ok(<< >>)

\* mutant: the cough rule is tested before the headache rule
rules_symptoms_cough_first(symptoms) ==
    LET r3 == any_in(w_headache, symptoms, 1)
        r4 == any_in(w_cough, symptoms, 1)
    IN IF r4 = "raise" THEN Raise("AttributeError")
       ELSE IF r4 = "true" THEN Ok(<< bronchitis >>)
       ELSE IF r3 = "raise" THEN Raise("AttributeError")
       ELSE IF r3 = "true" THEN Ok(<< headache >>)
       ELSE Ok(<< >>)

\* Rule 3 / Rule 4: the if / elif on the symptoms
rules_symptoms(symptoms) ==
    LET r3 == any_in(w_headache, symptoms, 1)
        r4 == any_in(w_cough, symptoms, 1)
    IN IF r3 = "raise" THEN Raise("AttributeError")
       ELSE IF r3 = "true" THEN Ok(<< headache >>)
       ELSE IF r4 = "raise" THEN Raise("AttributeError")
       ELSE IF r4 = "true" THEN Ok(<< bronchitis >>)
       ELSE Ok(<< >>)

\* mutant: the default prediction is appended unconditionally
default_rule_always(predictions) == Append(predictions, general_exam)

\* the default prediction when no rule matched
default_rule(predictions) == IF predictions = << >> THEN << general_exam >> ELSE predictions

\* mutant: the synthetic confidence is computed from the previous index
pad_confidence_off_by_one(next_idx) ==
    IF 30 - (next_idx - 1) * 10 > 10 THEN 30 - (next_idx - 1) * 10 ELSE 10

\* max(0.3 - next_idx * 0.1, 0.1)
pad_confidence(next_idx) == IF 30 - next_idx * 10 > 10 THEN 30 - next_idx * 10 ELSE 10

\* mutant: the loop pads up to 2 predictions only
RECURSIVE pad_loop_stops_early(_, _)
pad_loop_stops_early(predictions, icd10_mapping) ==
    IF ~(Len(predictions) < 2 /\ Len(predictions) < dict_len(icd10_mapping))
    THEN [hangs |-> FALSE, val |-> predictions]
    ELSE LET next_idx == Len(predictions)
         IN IF next_idx \in DOMAIN icd10_mapping
            THEN pad_loop_stops_early(Append(predictions,
                     DiseasePrediction(icd10_mapping[next_idx].code, icd10_mapping[next_idx].description,
                                       IF 30 - next_idx * 10 > 10 THEN 30 - next_idx * 10 ELSE 10, << >>, << >>)),
                     icd10_mapping)
            ELSE [hangs |-> TRUE, val |-> predictions]

\* the padding loop; an iteration that appends nothing repeats forever
RECURSIVE pad_loop(_, _)
pad_loop(predictions, icd10_mapping) ==
    IF ~(Len(predictions) < 3 /\ Len(predictions) < dict_len(icd10_mapping))
    THEN [hangs |-> FALSE, val |-> predictions]
    ELSE LET next_idx == Len(predictions)
         IN IF next_idx \in DOMAIN icd10_mapping
            THEN pad_loop(Append(predictions,
                     DiseasePrediction(icd10_mapping[next_idx].code, icd10_mapping[next_idx].description,
                                       pad_confidence(next_idx), << >>, << >>)),
                     icd10_mapping)
            ELSE [hangs |-> TRUE, val |-> predictions]

head3(s) == SubSeq(s, 1, IF Len(s) < 3 THEN Len(s) ELSE 3)

\* returns [exc, hangs, val]
generate_dummy_predictions(icd10_mapping, input_data) ==
    LET a == rules_fever(input_data.vital_temperature_c, input_data.symptom_list)
        b == rules_symptoms(input_data.symptom_list)
    IN IF a.exc # "none" THEN [exc |-> a.exc, hangs |-> FALSE, val |-> << >>]
       ELSE IF b.exc # "none" THEN [exc |-> b.exc, hangs |-> FALSE, val |-> << >>]
       ELSE LET p == pad_loop(default_rule(a.val \o b.val), icd10_mapping)
            IN [exc |-> "none", hangs |-> p.hangs, val |-> head3(p.val)]

\* ------------------------------------------------------------------------
\* ClinicalPredictor: model loading and the scored path
\* ------------------------------------------------------------------------
default_preprocessor ==
    [is_fitted |-> FALSE, feature_dim |-> NoneNum, symptom_vocab |-> symptom_vocab, pmh_vocab |-> pmh_vocab]
no_model == [loaded |-> FALSE, input_size |-> 0]

\* env.model_file: the .pth file exists; env.preprocessor_file: the pickled
\* preprocessor, if present; env.checkpoint: the shapes stored in the state dict.
\* load_state_dict raises on any shape mismatch and the model is dropped.
load_model(env, icd10_mapping, test_mapping, medication_mapping) ==
    IF ~env.model_file
    THEN [model |-> no_model, preprocessor |-> default_preprocessor]
    ELSE LET has_pre == env.preprocessor_file.present
             input_size == IF has_pre THEN get_feature_dim(env.preprocessor_file) ELSE 150
             fits == /\ env.checkpoint.input_size = input_size
                     /\ env.checkpoint.num_diseases = dict_len(icd10_mapping)
                     /\ env.checkpoint.num_tests = dict_len(test_mapping)
                     /\ env.checkpoint.num_medications = dict_len(medication_mapping)
         IN IF ~fits
            THEN [model |-> no_model, preprocessor |-> default_preprocessor]
            ELSE [model |-> [loaded |-> TRUE, input_size |-> input_size],
                  preprocessor |-> IF has_pre
                                   THEN [default_preprocessor EXCEPT !.is_fitted = env.preprocessor_file.is_fitted,
                                                                      !.feature_dim = input_size]
                                   ELSE default_preprocessor]

expected_dim == 106

\* mutant: the crop keeps the trailing columns
adjust_dims_keeps_tail(processed_input) ==
    IF Len(processed_input) = expected_dim THEN processed_input
    ELSE IF Len(processed_input) > expected_dim
         THEN SubSeq(processed_input, Len(processed_input) - expected_dim + 1, Len(processed_input))
    ELSE processed_input \o zeros(expected_dim - Len(processed_input))

\* crop to the leading columns or pad with trailing zeros
adjust_dims(processed_input) ==
    IF Len(processed_input) = expected_dim THEN processed_input
    ELSE IF Len(processed_input) > expected_dim THEN SubSeq(processed_input, 1, expected_dim)
    ELSE processed_input \o zeros(expected_dim - Len(processed_input))

\* the first linear layer accepts only rows of the width it was built with
forward_accepts(model, processed_input) == Len(processed_input) = model.input_size

min2(a, b) == IF a < b THEN a ELSE b

\* torch.topk over scores (a function on 0..n-1): every sequence of k distinct
\* indices in descending score order that leaves no larger score out; the
\* order among equal scores is not specified by torch
topk(scores, k) ==
    {t \in [1..k -> DOMAIN scores] :
        /\ \A i, j \in 1..k : i < j => (t[i] # t[j] /\ scores[t[i]] >= scores[t[j]])
        /\ \A d \in DOMAIN scores :
              (\A i \in 1..k : t[i] # d) => \A i \in 1..k : scores[t[i]] >= scores[d]}

error_prediction == DiseasePrediction("R69", "Illness, unspecified", 30, << >>, << >>)

\* the outputs of the forward pass when the model was not run
NoOutputs == [disease_probabilities |-> << >>, test_probabilities |-> << >>,
              medication_probabilities |-> << >>]

\* what predict() hands back
Returned(result, processed, model_input) ==
    [result |-> result, err |-> "none", raised |-> FALSE, hangs |-> FALSE,
     processed |-> processed, model_input |-> model_input, outputs |-> NoOutputs]

\* mutant: the exception leaves predict()
on_exception_propagates(e, processed, model_input) ==
    [result |-> << >>, err |-> e, raised |-> TRUE, hangs |-> FALSE,
     processed |-> processed, model_input |-> model_input, outputs |-> NoOutputs]

\* the except clause of predict(): one generic prediction, nothing re-raised
on_exception(e, processed, model_input) ==
    [result |-> << error_prediction >>, err |-> e, raised |-> FALSE, hangs |-> FALSE,
     processed |-> processed, model_input |-> model_input, outputs |-> NoOutputs]

NotCalled == [exc |-> "notcalled", val |-> << >>]

\* recommended tests / medications built from the top-k indices; slicing the
\* squeezed array of a single index (0-dimensional) raises IndexError
relevant_tests(self, out, test_top) ==
    IF Len(test_top) = 1 THEN Raise("IndexError")
    ELSE LET kept == SelectSeq(test_top, LAMBDA t : t \in DOMAIN self.test_mapping)
         IN Ok([i \in 1..Len(kept) |->
                   TestRecommendation(self.test_mapping[kept[i]].test, out.test_probabilities[kept[i]])])

relevant_meds(self, out, med_top) ==
    IF Len(med_top) = 1 THEN Raise("IndexError")
    ELSE LET kept == SelectSeq(med_top, LAMBDA m : m \in DOMAIN self.medication_mapping)
         IN Ok([i \in 1..Len(kept) |->
                   MedicationRecommendation(self.medication_mapping[kept[i]].medication,
                                            out.medication_probabilities[kept[i]])])

\* mutant: the lists are shared and grow with each disease converted
assemble_accumulating(self, out, top, test_top, med_top) ==
    LET tests == relevant_tests(self, out, test_top)
        meds == relevant_meds(self, out, med_top)
        known == SelectSeq(top, LAMBDA d : d \in DOMAIN self.icd10_mapping)
    IN IF known = << >> THEN Ok(<< >>)
       ELSE IF tests.exc # "none" THEN tests
       ELSE IF meds.exc # "none" THEN meds
       ELSE Ok([i \in 1..Len(known) |->
                   DiseasePrediction(self.icd10_mapping[known[i]].code, self.icd10_mapping[known[i]].description,
                                     out.disease_probabilities[known[i]],
                                     SubSeq(tests.val, 1, min2(i, Len(tests.val))),
                                     SubSeq(meds.val, 1, min2(i, Len(meds.val))))])

\* conversion of the selected indices to the response format
assemble(self, out, top, test_top, med_top) ==
    LET tests == relevant_tests(self, out, test_top)
        meds == relevant_meds(self, out, med_top)
        known == SelectSeq(top, LAMBDA d : d \in DOMAIN self.icd10_mapping)
    IN IF known = << >> THEN Ok(<< >>)
       ELSE IF tests.exc # "none" THEN tests
       ELSE IF meds.exc # "none" THEN meds
       ELSE Ok([i \in 1..Len(known) |->
                   DiseasePrediction(self.icd10_mapping[known[i]].code, self.icd10_mapping[known[i]].description,
                                     out.disease_probabilities[known[i]], tests.val, meds.val)])

\* mutant: every disease of the catalog is selected, not the best three
scored_uncapped(self, out, processed, model_input) ==
    { LET a == assemble(self, out, sel[1], sel[2], sel[3])
      IN [(IF a.exc # "none" THEN on_exception(a.exc, processed, model_input)
           ELSE Returned(a.val, processed, model_input)) EXCEPT !.outputs = out] :
      sel \in topk(out.disease_probabilities, dict_len(out.disease_probabilities))
              \X topk(out.test_probabilities, min2(3, dict_len(out.test_probabilities)))
              \X topk(out.medication_probabilities, min2(2, dict_len(out.medication_probabilities))) }

\* the scored path once the model has produced its outputs
scored(self, out, processed, model_input) ==
    { LET a == assemble(self, out, sel[1], sel[2], sel[3])
      IN [(IF a.exc # "none" THEN on_exception(a.exc, processed, model_input)
           ELSE Returned(a.val, processed, model_input)) EXCEPT !.outputs = out] :
      sel \in topk(out.disease_probabilities, min2(3, dict_len(out.disease_probabilities)))
              \X topk(out.test_probabilities, min2(3, dict_len(out.test_probabilities)))
              \X topk(out.medication_probabilities, min2(2, dict_len(out.medication_probabilities))) }

\* predict(): the set of outcomes of one call; outputs is the set of score
\* arrays the loaded model may produce for this input
predict(self, input_data, outputs) ==
    IF self.model.loaded
    THEN LET processed == preprocess_input(input_data)
             model_input == adjust_dims(processed.val)
         IN IF processed.exc # "none" THEN { on_exception(processed.exc, processed, << >>) }
            ELSE IF ~forward_accepts(self.model, model_input)
                 THEN { on_exception("RuntimeError", processed, model_input) }
            ELSE UNION { scored(self, out, processed, model_input) : out \in outputs }
    ELSE LET d == generate_dummy_predictions(self.icd10_mapping, input_data)
         IN IF d.exc # "none" THEN { on_exception(d.exc, NotCalled, << >>) }
            ELSE { [Returned(d.val, NotCalled, << >>) EXCEPT !.hangs = d.hangs] }

\* ------------------------------------------------------------------------
\* Bounded inputs
\* ------------------------------------------------------------------------
MaxSymptoms == 2
MaxPmh == 2
MaxDiseases == 3
MaxTests == 2
MaxMeds == 2

s_cough == <<"c","o","u","g","h">>  \* "cough"
s_coughing == <<"c","o","u","g","h","i","n","g">>  \* "coughing"
s_Cough_sp == <<" ","C","o","u","g","h"," ">>  \* " Cough "
s_headache == <<"h","e","a","d","a","c","h","e">>  \* "headache"
p_diabetes == <<"d","i","a","b","e","t","e","s">>  \* "diabetes"
p_diabetes_mellitus == <<"d","i","a","b","e","t","e","s"," ","m","e","l","l","i","t","u","s">>  \* "diabetes mellitus"
t_empty == << >>  \* ""
t_pain == <<"p","a","i","n">>  \* "pain"
t_notes == <<"S","h","a","r","p"," ","p","a","i","n",","," ","p","a","i","n",";"," ","P","A","I","N"," ","a","n","d"," ","m","o","r","e"," ","p","a","i","n">>  \* "Sharp pain, pain; PAIN and more pain"

SeqsUpTo(S, n) == UNION {[1..k -> S] : k \in 0..n}

SymptomTerms == {s_cough, s_coughing, s_Cough_sp, s_headache, PyInt}
PmhTerms == {p_diabetes, p_diabetes_mellitus}
Temperatures == {NoneNum, 365, 375, 380, 382}
Notes == {PyNone, t_empty, t_notes}
Complaints == {PyNone, t_pain}

Record(temp, symptoms, pmh, notes, complaint) ==
    [age |-> 54, sex |-> "female", vital_temperature_c |-> temp, vital_heart_rate |-> NoneNum,
     vital_blood_pressure_systolic |-> 130, vital_blood_pressure_diastolic |-> NoneNum,
     symptom_list |-> symptoms, pmh_list |-> pmh,
     free_text_notes |-> notes, chief_complaint |-> complaint]

\* requests that vary what the rules read, and requests that vary what only the encoder reads
Requests ==
    {Record(t, s, << >>, t_empty, t_empty) : t \in Temperatures, s \in SeqsUpTo(SymptomTerms, MaxSymptoms)}
    \cup {Record(382, << s_cough >>, p, n, c) : p \in SeqsUpTo(PmhTerms, MaxPmh), n \in Notes, c \in Complaints}

seed_diseases ==
    << [code |-> "A09", description |-> "Infectious gastroenteritis and colitis, unspecified"],
       [code |-> "J18.9", description |-> "Pneumonia, unspecified organism"],
       [code |-> "R51", description |-> "Headache"],
       [code |-> "J40", description |-> "Bronchitis, not specified as acute or chronic"],
       [code |-> "R50.9", description |-> "Fever, unspecified"],
       [code |-> "I10", description |-> "Essential (primary) hypertension"] >>

seed_tests ==
    << [test |-> "Complete Blood Count (CBC)"], [test |-> "Basic Metabolic Panel"],
       [test |-> "Urinalysis"], [test |-> "Chest X-ray (PA/AP)"] >>

seed_medications ==
    << [medication |-> "Acetaminophen"], [medication |-> "Ibuprofen"],
       [medication |-> "Amoxicillin"], [medication |-> "Lisinopril"] >>

QueryError == [ok |-> FALSE, rows |-> << >>]
Queries(rows, lo, hi) == {QueryError} \cup {[ok |-> TRUE, rows |-> SubSeq(rows, 1, n)] : n \in lo..hi}

CheckpointWidths == {106, 107, 150}
PreprocessorFiles == {[present |-> FALSE, is_fitted |-> FALSE, feature_dim |-> NoneNum],
                      [present |-> TRUE, is_fitted |-> FALSE, feature_dim |-> NoneNum],
                      [present |-> TRUE, is_fitted |-> TRUE, feature_dim |-> NoneNum]}

\* terms handed to the symptom and history encoders on their own: exact,
\* related to one or to several vocabulary terms, unrelated, blank, not a string
MaxTerms == 2
s_xyz == <<"x","y","z">>  \* "xyz"
s_blank == <<" ">>  \* " "
p_disease == <<"d","i","s","e","a","s","e">>  \* "disease"
Terms == {s_cough, s_Cough_sp, s_coughing, t_pain, p_diabetes, p_disease, s_xyz, s_blank, t_empty, PyInt}

\* texts handed to the text encoder on its own
Texts == {PyNone, t_empty, s_blank, t_pain, t_notes}

\* records without symptoms or history whose vitals and texts are present or
\* missing in every combination
SparseRecords ==
    {[age |-> a, sex |-> x, vital_temperature_c |-> t, vital_heart_rate |-> h,
      vital_blood_pressure_systolic |-> sy, vital_blood_pressure_diastolic |-> di,
      symptom_list |-> << >>, pmh_list |-> << >>,
      free_text_notes |-> n, chief_complaint |-> n] :
        a \in {0, 54}, x \in {"male", "female", "other"}, t \in {NoneNum, 382}, h \in {NoneNum, 88},
        sy \in {NoneNum, 130}, di \in {NoneNum, 85}, n \in {PyNone, t_empty}}

\* records given to the train-time encoder
TrainRecords ==
    SparseRecords \cup {Record(382, << s_cough, s_coughing >>, << p_diabetes_mellitus >>, t_empty, t_empty)}

\* encoded vectors around the width predict() expects, without zero entries
MaxDelta == 3
NumFills == 3
Vectors ==
    {[i \in 1..L |-> ((i * m) % 7) + 1] :
        L \in (expected_dim - MaxDelta)..(expected_dim + MaxDelta), m \in 1..NumFills}

\* score arrays a loaded model may return (hundredths), for catalogs of the given sizes
NumProfiles == 3
disease_score(p, i) ==
    IF p = 1 THEN (IF 60 - 15 * i > 1 THEN 60 - 15 * i ELSE 1)
    ELSE IF p = 2 THEN (IF i < 2 THEN 40 ELSE 5)
    ELSE min2(10 + 10 * i, 100)
test_score(p, i) ==
    IF p = 1 THEN (IF 90 - 10 * i > 50 THEN 90 - 10 * i ELSE 50)
    ELSE IF p = 2 THEN (IF 45 - 5 * i > 0 THEN 45 - 5 * i ELSE 0)
    ELSE min2(30 + 30 * i, 100)
med_score(p, i) ==
    IF p = 1 THEN (IF 80 - 20 * i > 0 THEN 80 - 20 * i ELSE 0)
    ELSE IF p = 2 THEN (IF 50 - 10 * i > 0 THEN 50 - 10 * i ELSE 0)
    ELSE min2(10 + 40 * i, 100)

ModelOutputs(D, T, M) ==
    {[disease_probabilities |-> [i \in 0..(D - 1) |-> disease_score(p, i)],
      test_probabilities |-> [i \in 0..(T - 1) |-> test_score(p, i)],
      medication_probabilities |-> [i \in 0..(M - 1) |-> med_score(p, i)]] : p \in 1..NumProfiles}

\* ------------------------------------------------------------------------
\* State
\* ------------------------------------------------------------------------
VARIABLES
    predictor,            \* the module-level singleton: "None" or "ready"
    model,                \* self.model
    preprocessor,         \* self.preprocessor
    icd10_mapping,        \* self.icd10_mapping
    test_mapping,         \* self.test_mapping
    medication_mapping,   \* self.medication_mapping
    pc,                   \* position of the request handler
    input_data,           \* request.dict() of the request being handled
    outcome,              \* what predict() did for it
    direct,               \* a step of the pipeline run on its own: [op, arg, ret]
    db_session,           \* self.db_session: what its three catalog queries gave
    tables,               \* the database tables of stored predictions, feedback and samples
    reply                 \* the answer of the data handler that ran last

vars == <<predictor, model, preprocessor, icd10_mapping, test_mapping, medication_mapping,
          pc, input_data, outcome, direct, db_session, tables, reply>>

self_ == [model |-> model, icd10_mapping |-> icd10_mapping, test_mapping |-> test_mapping,
          medication_mapping |-> medication_mapping]

NoOutcome == [result |-> << >>, err |-> "none", raised |-> FALSE, hangs |-> FALSE,
              processed |-> NotCalled, model_input |-> << >>, outputs |-> NoOutputs]

\* empty tables; predictions is keyed by id, the other tables are bags of rows
NoRows == [predictions |-> << >>, clinical_feedback |-> EmptyBag,
           training_data |-> EmptyBag, validation_data |-> EmptyBag]
NoReply == [op |-> "none", arg |-> << >>, status |-> 0, ret |-> << >>]

NoSession == [icd10 |-> QueryError, test |-> QueryError, medication |-> QueryError]

NoCall == [op |-> "none", arg |-> << >>, ret |-> << >>]

Init ==
    /\ predictor = "None"
    /\ model = no_model
    /\ preprocessor = default_preprocessor
    /\ icd10_mapping = << >>
    /\ test_mapping = << >>
    /\ medication_mapping = << >>
    /\ pc = "idle"
    /\ input_data = << >>
    /\ outcome = NoOutcome
    /\ direct = NoCall
    /\ db_session = NoSession
    /\ tables = NoRows
    /\ reply = NoReply

\* mutant: a predictor is constructed for every request
get_predictor_every_time ==
    /\ predictor \in {"None", "ready"}
    /\ pc = "idle"
    /\ \E qi \in Queries(seed_diseases, 0, MaxDiseases),
          qt \in Queries(seed_tests, 1, MaxTests),
          qm \in Queries(seed_medications, 1, MaxMeds),
          mf \in BOOLEAN, pf \in PreprocessorFiles, w \in CheckpointWidths, heads_fit \in BOOLEAN :
          LET icd == load_icd10_mapping_from_db(qi)
              tst == load_test_mapping_from_db(qt)
              med == load_medication_mapping_from_db(qm)
              env == [model_file |-> mf, preprocessor_file |-> pf,
                      checkpoint |-> [input_size |-> w,
                                      num_diseases |-> dict_len(icd) + (IF heads_fit THEN 0 ELSE 1),
                                      num_tests |-> dict_len(tst),
                                      num_medications |-> dict_len(med)]]
              loaded == load_model(env, icd, tst, med)
          IN /\ icd10_mapping' = icd
             /\ test_mapping' = tst
             /\ medication_mapping' = med
             /\ model' = loaded.model
             /\ preprocessor' = loaded.preprocessor
             /\ db_session' = [icd10 |-> qi, test |-> qt, medication |-> qm]
    /\ predictor' = "ready"
    /\ UNCHANGED <<pc, input_data, outcome, direct, tables, reply>>

\* get_predictor() on the first call: ClinicalPredictor.__init__
get_predictor ==
    /\ predictor = "None"
    /\ pc = "idle"
    /\ \E qi \in Queries(seed_diseases, 0, MaxDiseases),
          qt \in Queries(seed_tests, 1, MaxTests),
          qm \in Queries(seed_medications, 1, MaxMeds),
          mf \in BOOLEAN, pf \in PreprocessorFiles, w \in CheckpointWidths, heads_fit \in BOOLEAN :
          LET icd == load_icd10_mapping_from_db(qi)
              tst == load_test_mapping_from_db(qt)
              med == load_medication_mapping_from_db(qm)
              env == [model_file |-> mf, preprocessor_file |-> pf,
                      checkpoint |-> [input_size |-> w,
                                      num_diseases |-> dict_len(icd) + (IF heads_fit THEN 0 ELSE 1),
                                      num_tests |-> dict_len(tst),
                                      num_medications |-> dict_len(med)]]
              loaded == load_model(env, icd, tst, med)
          IN /\ icd10_mapping' = icd
             /\ test_mapping' = tst
             /\ medication_mapping' = med
             /\ model' = loaded.model
             /\ preprocessor' = loaded.preprocessor
             /\ db_session' = [icd10 |-> qi, test |-> qt, medication |-> qm]
    /\ predictor' = "ready"
    /\ UNCHANGED <<pc, input_data, outcome, direct, tables, reply>>

\* predict_disease: a request arrives and is converted to a dict
predict_disease(request) ==
    /\ predictor = "ready"
    /\ pc = "idle"
    /\ pc' = "called"
    /\ input_data' = request
    /\ UNCHANGED <<predictor, model, preprocessor, icd10_mapping, test_mapping, medication_mapping, outcome, direct, db_session, tables, reply>>

\* mutant: a call that ended in the except clause gives up the model
call_predict_drops_model ==
    /\ pc = "called"
    /\ \E o \in predict(self_, input_data,
                        ModelOutputs(dict_len(icd10_mapping), dict_len(test_mapping), dict_len(medication_mapping))) :
          /\ outcome' = o
          /\ pc' = IF o.hangs THEN "hung" ELSE IF o.raised THEN "failed" ELSE "returned"
          /\ model' = IF o.err # "none" THEN no_model ELSE model
    /\ UNCHANGED <<predictor, preprocessor, icd10_mapping, test_mapping, medication_mapping, input_data, direct, db_session, tables, reply>>

\* ml_predictor.predict(request_dict)
call_predict ==
    /\ pc = "called"
    /\ \E o \in predict(self_, input_data,
                        ModelOutputs(dict_len(icd10_mapping), dict_len(test_mapping), dict_len(medication_mapping))) :
          /\ outcome' = o
          /\ pc' = IF o.hangs THEN "hung" ELSE IF o.raised THEN "failed" ELSE "returned"
    /\ UNCHANGED <<predictor, model, preprocessor, icd10_mapping, test_mapping, medication_mapping, input_data, direct, db_session, tables, reply>>

\* mutant: the singleton is dropped after each response, so the next request
\* constructs a predictor again
respond_drops_predictor ==
    /\ pc \in {"returned", "failed"}
    /\ pc' = "idle"
    /\ input_data' = << >>
    /\ outcome' = NoOutcome
    /\ predictor' = "None"
    /\ UNCHANGED <<model, preprocessor, icd10_mapping, test_mapping, medication_mapping, direct, db_session, tables, reply>>

\* the response is sent; the handler is ready for the next request
respond ==
    /\ pc \in {"returned", "failed"}
    /\ pc' = "idle"
    /\ input_data' = << >>
    /\ outcome' = NoOutcome
    /\ UNCHANGED <<predictor, model, preprocessor, icd10_mapping, test_mapping, medication_mapping, direct, db_session, tables, reply>>

Next ==
    \/ get_predictor
    \/ \E request \in Requests : predict_disease(request)
    \/ call_predict
    \/ respond

Spec == Init /\ [][Next]_vars

\* ------------------------------------------------------------------------
\* The steps of the pipeline run on their own, on inputs the request
\* handler does not produce (debug_preprocessor.py calls preprocess_input this way)
\* ------------------------------------------------------------------------
handler == <<predictor, model, preprocessor, icd10_mapping, test_mapping, medication_mapping,
             pc, input_data, outcome, db_session, tables, reply>>

\* the dimension adjustment of predict() applied to an encoded vector
call_adjust_dims(processed_input) ==
    /\ direct = NoCall
    /\ direct' = [op |-> "adjust_dims", arg |-> processed_input, ret |-> adjust_dims(processed_input)]
    /\ UNCHANGED handler

call_preprocess_symptoms(symptom_list) ==
    /\ direct = NoCall
    /\ direct' = [op |-> "preprocess_symptoms", arg |-> symptom_list, ret |-> preprocess_symptoms(symptom_list)]
    /\ UNCHANGED handler

call_preprocess_pmh(pmh_list) ==
    /\ direct = NoCall
    /\ direct' = [op |-> "preprocess_pmh", arg |-> pmh_list, ret |-> preprocess_pmh(pmh_list)]
    /\ UNCHANGED handler

call_preprocess_text(text) ==
    /\ direct = NoCall
    /\ direct' = [op |-> "preprocess_text", arg |-> text, ret |-> preprocess_text(text)]
    /\ UNCHANGED handler

call_preprocess_input(data) ==
    /\ direct = NoCall
    /\ direct' = [op |-> "preprocess_input", arg |-> data, ret |-> preprocess_input(data)]
    /\ UNCHANGED handler

call_process_single_sample(sample) ==
    /\ direct = NoCall
    /\ direct' = [op |-> "process_single_sample", arg |-> sample, ret |-> process_single_sample(sample)]
    /\ UNCHANGED handler

\* the caller has its result
direct_return ==
    /\ direct # NoCall
    /\ direct' = NoCall
    /\ UNCHANGED handler

DirectNext ==
    \/ \E v \in Vectors : call_adjust_dims(v)
    \/ \E symptom_list \in SeqsUpTo(Terms, MaxTerms) : call_preprocess_symptoms(symptom_list)
    \/ \E pmh_list \in SeqsUpTo(Terms, MaxTerms) : call_preprocess_pmh(pmh_list)
    \/ \E text \in Texts : call_preprocess_text(text)
    \/ \E data \in SparseRecords : call_preprocess_input(data)
    \/ \E sample \in TrainRecords : call_process_single_sample(sample)
    \/ direct_return

DirectSpec == Init /\ [][DirectNext]_vars

\* ------------------------------------------------------------------------
\* Stored predictions, doctor feedback and the training tables
\* (app/api/v1/endpoints/feedback.py, training_data_manager.py)
\* ------------------------------------------------------------------------
MaxPredictions == 2
MaxFeedback == 3

\* a condition name that is None
NoName == ""

serving == <<predictor, model, preprocessor, icd10_mapping, test_mapping, medication_mapping,
             pc, input_data, outcome, db_session, direct>>

\* requests whose answers get stored, with the answers the rule fallback gives
\* over the embedded catalog
StoredRequests ==
    {Record(382, << s_cough >>, << >>, t_empty, t_empty),
     Record(NoneNum, << >>, << >>, t_empty, t_empty)}
StoredAnswers ==
    UNION {{<< r, o.result >> :
               o \in predict([model |-> no_model, icd10_mapping |-> enumerate(icd10_fallback),
                              test_mapping |-> enumerate(test_fallback),
                              medication_mapping |-> enumerate(medication_fallback)], r, {})} :
           r \in StoredRequests}

\* the row of a request and its answer; predictions holds pred.dict() of each
\* DiseasePrediction
Prediction(request_data, predictions) ==
    [age |-> request_data.age, sex |-> request_data.sex,
     vital_temperature_c |-> request_data.vital_temperature_c,
     vital_heart_rate |-> request_data.vital_heart_rate,
     predictions |-> predictions]

\* the id the table gives the next row
next_id(rows) == IF DOMAIN rows = {} THEN 1 ELSE (CHOOSE i \in DOMAIN rows : \A j \in DOMAIN rows : j <= i) + 1

\* the background task of predict_disease
save_prediction_to_db(request_data, predictions) ==
    /\ reply = NoReply
    /\ next_id(tables.predictions) <= MaxPredictions
    /\ tables' = [tables EXCEPT !.predictions =
                     [i \in DOMAIN tables.predictions \cup {next_id(tables.predictions)} |->
                         IF i \in DOMAIN tables.predictions THEN tables.predictions[i]
                         ELSE Prediction(request_data, predictions)]]
    /\ UNCHANGED <<reply, serving>>

\* the row made up when the prediction of a feedback is not found
mock_prediction ==
    [age |-> 42, sex |-> "male", vital_temperature_c |-> 365, vital_heart_rate |-> 78,
     predictions |-> << [disease_id |-> 1, disease_name |-> "Muscle Strain",
                         confidence |-> 85, icd10_code |-> "M79.3"] >>]

\* first_prediction.get('disease_id') and .get('disease_name')
get_disease_id(first_prediction) ==
    IF "disease_id" \in DOMAIN first_prediction THEN first_prediction.disease_id ELSE NoneNum
get_disease_name(first_prediction) ==
    IF "disease_name" \in DOMAIN first_prediction THEN first_prediction.disease_name ELSE NoName

\* the disease and condition a feedback vouches for
target_of(feedback, prediction) ==
    IF feedback.prediction_accurate
    THEN IF prediction.predictions # << >>
         THEN [disease |-> get_disease_id(prediction.predictions[1]),
               condition |-> get_disease_name(prediction.predictions[1])]
         ELSE [disease |-> NoneNum, condition |-> NoName]
    ELSE [disease |-> feedback.actual_disease_id, condition |-> feedback.actual_condition_name]

\* TrainingDataManager.add_training_sample: temperature and heart rate are
\* NOT NULL columns of training_data
add_training_sample(prediction, feedback, target) ==
    IF prediction.vital_temperature_c = NoneNum \/ prediction.vital_heart_rate = NoneNum
    THEN Raise("IntegrityError")
    ELSE Ok([age |-> prediction.age, sex |-> prediction.sex,
             vital_temperature_c |-> prediction.vital_temperature_c,
             vital_heart_rate |-> prediction.vital_heart_rate,
             target_disease |-> target.disease, condition_name |-> target.condition,
             quality_score |-> min2(95, feedback.confidence_in_feedback + 10),
             created_by |-> feedback.doctor_id])

\* "if feedback.confidence_in_feedback >= 0.8"
wants_training(feedback) == feedback.confidence_in_feedback >= 80

\* POST /prediction-feedback; stored is whether the commit of the feedback row
\* went through
submit_prediction_feedback(feedback, stored) ==
    /\ reply = NoReply
    /\ BagCardinality(tables.clinical_feedback) < MaxFeedback
    /\ LET found == feedback.prediction_id \in DOMAIN tables.predictions
           prediction == IF found THEN tables.predictions[feedback.prediction_id] ELSE mock_prediction
           predictions == [i \in DOMAIN tables.predictions \cup {feedback.prediction_id} |->
                              IF i \in DOMAIN tables.predictions THEN tables.predictions[i]
                              ELSE mock_prediction]
           feedback_record == [prediction_id |-> feedback.prediction_id,
                               prediction_accurate |-> feedback.prediction_accurate,
                               confidence_in_feedback |-> feedback.confidence_in_feedback]
           all_feedback == tables.clinical_feedback (+) SetToBag({feedback_record})
           target == target_of(feedback, prediction)
           tried == /\ wants_training(feedback)
                    /\ target.disease # NoneNum /\ target.disease # 0
                    /\ target.condition # NoName
           sample == add_training_sample(prediction, feedback, target)
           added == tried /\ sample.exc = "none"
           for_prediction == [r \in {x \in DOMAIN all_feedback : x.prediction_id = feedback.prediction_id}
                                 |-> all_feedback[r]]
       IN IF stored
          THEN /\ tables' = [tables EXCEPT !.predictions = predictions,
                                           !.clinical_feedback = all_feedback,
                                           !.training_data =
                                               IF added THEN @ (+) SetToBag({sample.val}) ELSE @]
               /\ reply' = [op |-> "submit_prediction_feedback", arg |-> feedback, status |-> 200,
                            ret |-> [training_data_added |-> added,
                                     total_feedback_for_prediction |-> BagCardinality(for_prediction)]]
          ELSE /\ tables' = [tables EXCEPT !.predictions = predictions]
               /\ reply' = [op |-> "submit_prediction_feedback", arg |-> feedback, status |-> 500,
                            ret |-> << >>]
    /\ UNCHANGED serving

\* the rows of a table with the given condition
of_condition(rows, condition) ==
    [r \in {x \in DOMAIN rows : x.condition_name = condition} |-> rows[r]]

\* mutant: the count is rounded up
train_count_ceil(condition_count, train_ratio) == (condition_count * train_ratio + 99) \div 100

\* int(condition_count * train_ratio), the ratio in hundredths
train_count(condition_count, train_ratio) == (condition_count * train_ratio) \div 100

\* TrainingDataManager.rebalance_datasets: per condition the samples of both
\* tables are shuffled and cut at train_count; committed is whether the
\* transaction went through
rebalance_datasets(train_ratio, committed) ==
    /\ reply = NoReply
    /\ LET all_samples == tables.training_data (+) tables.validation_data
           unique_conditions == {r.condition_name : r \in DOMAIN all_samples}
           splits == {new_train \in SubBag(all_samples) :
                        \A c \in unique_conditions :
                           \/ BagCardinality(of_condition(new_train, c))
                                 = train_count(BagCardinality(of_condition(all_samples, c)), train_ratio)
                           \/ /\ of_condition(new_train, c) = of_condition(all_samples, c)
                              /\ train_count(BagCardinality(of_condition(all_samples, c)), train_ratio)
                                    > BagCardinality(of_condition(all_samples, c))}
       IN IF committed
          THEN \E new_train \in splits :
                  /\ tables' = [tables EXCEPT !.training_data = new_train,
                                              !.validation_data = all_samples (-) new_train]
                  /\ reply' = [op |-> "rebalance_datasets", arg |-> train_ratio, status |-> 200,
                               ret |-> << BagCardinality(new_train),
                                          BagCardinality(all_samples (-) new_train) >>]
          ELSE /\ tables' = tables
               /\ reply' = [op |-> "rebalance_datasets", arg |-> train_ratio, status |-> 500,
                            ret |-> << >>]
    /\ UNCHANGED serving

\* the caller has its answer
data_return ==
    /\ reply # NoReply
    /\ reply' = NoReply
    /\ UNCHANGED <<tables, serving>>

Feedbacks ==
    {[prediction_id |-> p, doctor_id |-> "DR001", prediction_accurate |-> a,
      confidence_in_feedback |-> c, actual_disease_id |-> d[1], actual_condition_name |-> d[2]] :
        p \in 1..MaxPredictions, a \in BOOLEAN, c \in {60, 80},
        d \in {<< NoneNum, NoName >>, << 2, "Lower Back Strain" >>}}

\* train_ratio values whose products with the sample counts are exact
Ratios == {0, 50, 100}

DataNext ==
    \/ \E a \in StoredAnswers : save_prediction_to_db(a[1], a[2])
    \/ \E feedback \in Feedbacks, stored \in BOOLEAN : submit_prediction_feedback(feedback, stored)
    \/ \E train_ratio \in Ratios, committed \in BOOLEAN : rebalance_datasets(train_ratio, committed)
    \/ data_return

DataSpec == Init /\ [][DataNext]_vars

\* ------------------------------------------------------------------------
\* Properties
\* ------------------------------------------------------------------------
\* predict() has come back through the rule-based fallback without an error
FallbackReturned == pc = "returned" /\ ~model.loaded /\ outcome.err = "none"

\* predict() has come back (or failed) on the scored path
ScoredCalled == pc \in {"returned", "failed"} /\ model.loaded

AllStr(list) == \A i \in 1..Len(list) : IsStr(list[i])

\* some symptom contains the word, case-insensitively
mentions(symptoms, word) ==
    \E i \in 1..Len(symptoms) : IsStr(symptoms[i]) /\ contains(lower(symptoms[i]), word)

hotter(data, tenths) == data.vital_temperature_c # NoneNum /\ data.vital_temperature_c > tenths

has(result, prediction) == \E i \in 1..Len(result) : result[i] = prediction

\* C1: predict never raises to its caller; every exception raised inside it,
\* in the scored path or in the fallback, is answered with exactly one
\* prediction R69 of confidence 0.30 without tests or medications.
C1_PredictNeverRaises ==
    /\ pc # "failed"
    /\ ~outcome.raised
    /\ outcome.err # "none" =>
          /\ Len(outcome.result) = 1
          /\ outcome.result[1].icd10_code = "R69"
          /\ outcome.result[1].confidence = 30
          /\ outcome.result[1].recommended_tests = << >>
          /\ outcome.result[1].recommended_medications = << >>

C1_Witness ==
    /\ pc = "returned" /\ ~model.loaded
    /\ outcome.err = "AttributeError"
    /\ outcome.result = << error_prediction >>

\* C2: with a catalog of at least 3 entries the fallback engine returns
\* exactly 3 predictions for every temperature and every list of symptom
\* strings, and its padding loop terminates.
C2_FallbackReturnsThree ==
    (/\ pc \in {"returned", "failed", "hung"}
     /\ ~model.loaded
     /\ AllStr(input_data.symptom_list)
     /\ dict_len(icd10_mapping) >= 3)
    => (pc = "returned" /\ outcome.err = "none" /\ ~outcome.hangs /\ Len(outcome.result) = 3)

C2_Witness ==
    /\ FallbackReturned
    /\ dict_len(icd10_mapping) >= 3
    /\ input_data.symptom_list = << >>
    /\ Len(outcome.result) = 3
    /\ outcome.result[3].recommended_tests = << >>

\* C3: the vector handed to the loaded model has exactly the input width the
\* model was constructed with.
C3_InputWidthIsModelWidth ==
    (ScoredCalled /\ outcome.processed.exc = "none")
    => Len(outcome.model_input) = model.input_size

\* C4: for every valid record, absent free-text fields included,
\* preprocess_input returns a vector of length 6 + |symptom vocabulary| +
\* |history vocabulary| + |keyword list|.
C4_PreprocessInputLength ==
    (ScoredCalled /\ AllStr(input_data.symptom_list) /\ AllStr(input_data.pmh_list))
    => /\ outcome.processed.exc = "none"
       /\ Len(outcome.processed.val) =
             6 + Len(common_symptoms) + Len(common_conditions) + Len(medical_keywords)

\* C5: every vocabulary slot whose term occurs exactly (lowercased, trimmed) in
\* the input list holds weight 1.0, whatever the order of the list and whatever
\* other terms partially match the slot, for symptoms and for history.
C5_ExactMatchWins ==
    (ScoredCalled /\ outcome.processed.exc = "none")
    => /\ \A k \in 1..Len(common_symptoms) :
             (\E i \in 1..Len(input_data.symptom_list) :
                 strip(lower(input_data.symptom_list[i])) = common_symptoms[k])
             => outcome.processed.val[6 + k] = Scale
       /\ \A k \in 1..Len(common_conditions) :
             (\E i \in 1..Len(input_data.pmh_list) :
                 strip(lower(input_data.pmh_list[i])) = common_conditions[k])
             => outcome.processed.val[6 + Len(common_symptoms) + k] = Scale

\* C6: the Bronchitis candidate (J40, 0.68) appears only when some symptom
\* contains "cough", none contains "headache" and the Pneumonia branch did not
\* fire; no result holds both the Pneumonia and the Bronchitis candidate.
C6_BronchitisOnlyWithoutPneumonia ==
    FallbackReturned =>
       /\ has(outcome.result, bronchitis) =>
             /\ mentions(input_data.symptom_list, w_cough)
             /\ ~mentions(input_data.symptom_list, w_headache)
             /\ ~(hotter(input_data, 380) /\ mentions(input_data.symptom_list, w_cough))
       /\ ~(has(outcome.result, pneumonia) /\ has(outcome.result, bronchitis))

\* C7: with temperature > 38.0 and a symptom containing "cough" the first
\* prediction is J18.9 "Pneumonia, unspecified organism" at 0.82; the Fever
\* candidate (R50.9, 0.65) is produced exactly when temperature > 37.5 and the
\* Pneumonia branch did not fire; at most one of the two is produced, and
\* the one produced is the first prediction.
C7_FeverBranches ==
    FallbackReturned =>
       LET first_rule == hotter(input_data, 380) /\ mentions(input_data.symptom_list, w_cough)
       IN /\ first_rule =>
                /\ outcome.result[1].icd10_code = "J18.9"
                /\ outcome.result[1].diagnosis = "Pneumonia, unspecified organism"
                /\ outcome.result[1].confidence = 82
          /\ has(outcome.result, fever) <=> (hotter(input_data, 375) /\ ~first_rule)
          /\ ~(has(outcome.result, pneumonia) /\ has(outcome.result, fever))
          /\ has(outcome.result, pneumonia) => outcome.result[1] = pneumonia
          /\ has(outcome.result, fever) => outcome.result[1] = fever

C7_Witness ==
    /\ FallbackReturned
    /\ input_data.vital_temperature_c = 382
    /\ mentions(input_data.symptom_list, w_cough)
    /\ outcome.result[1] = pneumonia

\* C8: the Headache candidate (R51, 0.70) is produced if and only if some
\* symptom contains "headache", whether or not the Pneumonia or Fever branch
\* fired, and it comes right after their candidate when there is one.
C8_HeadacheIndependent ==
    FallbackReturned =>
       /\ has(outcome.result, headache) <=> mentions(input_data.symptom_list, w_headache)
       /\ has(outcome.result, headache) =>
             IF outcome.result[1] \in {pneumonia, fever}
             THEN outcome.result[2] = headache
             ELSE outcome.result[1] = headache

C8_Witness ==
    /\ FallbackReturned
    /\ outcome.result[1] = pneumonia
    /\ outcome.result[2] = headache

\* C9: the default candidate (Z00.00, 0.40, one test CBC 0.6, no medication)
\* is produced if and only if none of the four rule branches produced a
\* candidate, and then it is the first prediction.
C9_DefaultOnlyWhenNoRule ==
    FallbackReturned =>
       LET default == DiseasePrediction("Z00.00",
                         "Encounter for general adult medical examination without abnormal findings", 40,
                         << TestRecommendation("Complete Blood Count (CBC)", 60) >>, << >>)
           any_rule == \E p \in {pneumonia, fever, headache, bronchitis} : has(outcome.result, p)
       IN /\ has(outcome.result, default) <=> ~any_rule
          /\ has(outcome.result, default) <=>
                ~(\/ hotter(input_data, 375)
                  \/ mentions(input_data.symptom_list, w_headache)
                  \/ mentions(input_data.symptom_list, w_cough))
          /\ has(outcome.result, default) => outcome.result[1] = default

C9_Witness ==
    /\ FallbackReturned
    /\ input_data.vital_temperature_c = 375
    /\ outcome.result[1] = general_exam

\* C10: when the rules produced c < 3 candidates, the entries after them are
\* the catalog rows at indices c, c+1, ... with confidence
\* max(0.3 - index*0.1, 0.1) and no tests or medications, up to 3 entries or
\* the end of the catalog; no symptoms at 36.5 give 0.40, 0.2, 0.1.
C10_Padding ==
    FallbackReturned =>
       LET rule_made == {pneumonia, fever, headache, bronchitis, general_exam}
           c == Cardinality({i \in 1..Len(outcome.result) : outcome.result[i] \in rule_made})
           n == dict_len(icd10_mapping)
           conf(index) == IF index = 0 THEN 30 ELSE IF index = 1 THEN 20 ELSE 10
       IN /\ \A i \in 1..c : outcome.result[i] \in rule_made
          /\ Len(outcome.result) = (IF n < c THEN c ELSE IF n < 3 THEN n ELSE 3)
          /\ \A i \in (c + 1)..Len(outcome.result) :
                /\ outcome.result[i].icd10_code = icd10_mapping[i - 1].code
                /\ outcome.result[i].diagnosis = icd10_mapping[i - 1].description
                /\ outcome.result[i].confidence = conf(i - 1)
                /\ outcome.result[i].recommended_tests = << >>
                /\ outcome.result[i].recommended_medications = << >>
          /\ (/\ input_data.symptom_list = << >>
              /\ input_data.vital_temperature_c = 365
              /\ n >= 3)
             => /\ outcome.result[1].icd10_code = "Z00.00"
                /\ [i \in 1..3 |-> outcome.result[i].confidence] = << 40, 20, 10 >>

C10_Witness ==
    /\ FallbackReturned
    /\ input_data.symptom_list = << >>
    /\ input_data.vital_temperature_c = 365
    /\ [i \in 1..Len(outcome.result) |-> outcome.result[i].confidence] = << 40, 20, 10 >>

\* predict() has come back from the scored path with predictions
ScoredReturned ==
    pc = "returned" /\ model.loaded /\ outcome.err = "none" /\ outcome.result # << >>

\* C11: every recommended test attached by the scored path has a score of
\* at least 0.5, and at most 3 tests are attached to a prediction.
C11_TestsAboveFloor ==
    ScoredReturned =>
       \A i \in 1..Len(outcome.result) :
          LET tests == outcome.result[i].recommended_tests
          IN /\ Len(tests) <= 3
             /\ \A j \in 1..Len(tests) : tests[j].confidence >= 50

\* C12: the dimension adjustment never fails and keeps the prefix: a vector
\* of the expected width W is unchanged, a longer one is cut to its first W
\* elements, a shorter one is followed by W - L zeros.
C12_AdjustKeepsPrefix ==
    direct.op = "adjust_dims" =>
       LET v == direct.arg
           r == direct.ret
           L == Len(v)
           W == expected_dim
       IN /\ Len(r) = W
          /\ L = W => r = v
          /\ L > W => r = SubSeq(v, 1, W)
          /\ L < W => r = v \o [i \in 1..(W - L) |-> 0]

C12_Witness ==
    /\ direct.op = "adjust_dims"
    /\ Len(direct.arg) < expected_dim
    /\ Len(direct.ret) = expected_dim
    /\ direct.ret[expected_dim] = 0

\* C13: the mode is fixed at construction. A missing model file, or a
\* checkpoint that does not load, leaves no model; once the predictor exists
\* no step loads again or changes the model or the encoder; and while there
\* is no model every predict call answers from the fallback rules without
\* calling the encoder or the forward pass.
C13_ModeFixedAtConstruction ==
    [][ /\ (predictor = "None" /\ predictor' = "ready") =>
              \A mf \in BOOLEAN, pf \in PreprocessorFiles, w \in CheckpointWidths, extra \in 0..1 :
                 LET env == [model_file |-> mf, preprocessor_file |-> pf,
                             checkpoint |-> [input_size |-> w,
                                             num_diseases |-> dict_len(icd10_mapping') + extra,
                                             num_tests |-> dict_len(test_mapping'),
                                             num_medications |-> dict_len(medication_mapping')]]
                 IN (~mf \/ extra = 1) =>
                       load_model(env, icd10_mapping', test_mapping', medication_mapping').model = no_model
        /\ predictor = "ready" =>
              /\ predictor' = "ready"
              /\ model' = model
              /\ preprocessor' = preprocessor
        /\ (pc = "called" /\ ~model.loaded) =>
              /\ outcome'.processed = NotCalled
              /\ outcome'.model_input = << >>
              /\ outcome'.outputs = NoOutputs ]_vars

C13_Witness ==
    /\ predictor = "ready"
    /\ ~model.loaded
    /\ pc = "returned"
    /\ outcome.processed = NotCalled
    /\ Len(outcome.result) = 3

\* C14: whatever the path and the input (rule fallback, scored path or the
\* answer to an exception), predict returns at most 3 predictions and every
\* confidence lies in [0, 1].
C14_AtMostThreeInRange ==
    pc \in {"returned", "failed"} =>
       /\ Len(outcome.result) <= 3
       /\ \A i \in 1..Len(outcome.result) :
             /\ outcome.result[i].confidence >= 0
             /\ outcome.result[i].confidence <= 100

\* the scored path cut a catalog of more than three diseases
C14_Witness ==
    /\ ScoredReturned
    /\ dict_len(icd10_mapping) > 3
    /\ Len(outcome.result) = 3

\* the catalog index of the i-th returned prediction
index_of(i) ==
    CHOOSE d \in DOMAIN icd10_mapping : icd10_mapping[d].code = outcome.result[i].icd10_code

\* C15: the scored path returns the diseases in descending order of score,
\* equal scores in ascending catalog index, and a class left out by the cut
\* to three scores less than every returned one, or the same as the last
\* returned one with a higher index.
C15_DescendingTiesByIndex ==
    ScoredReturned =>
       LET score == outcome.outputs.disease_probabilities
           n == Len(outcome.result)
           returned == {index_of(i) : i \in 1..n}
       IN /\ \A i \in 1..n : outcome.result[i].confidence = score[index_of(i)]
          /\ \A i, j \in 1..n :
                i < j => \/ score[index_of(i)] > score[index_of(j)]
                         \/ /\ score[index_of(i)] = score[index_of(j)]
                            /\ index_of(i) < index_of(j)
          /\ \A d \in DOMAIN score \ returned :
                \/ score[d] < score[index_of(n)]
                \/ /\ score[d] = score[index_of(n)]
                   /\ d > index_of(n)

\* C16: tests and medications are selected once per call from the score
\* arrays of the whole call, not per disease: every prediction of one
\* response carries the same recommended_tests and the same
\* recommended_medications, each entry with the score its catalog row has in
\* the call's arrays.
C16_SameListsOnEveryPrediction ==
    ScoredReturned =>
       LET first == outcome.result[1]
       IN /\ \A i \in 1..Len(outcome.result) :
                /\ outcome.result[i].recommended_tests = first.recommended_tests
                /\ outcome.result[i].recommended_medications = first.recommended_medications
          /\ \A j \in 1..Len(first.recommended_tests) :
                \E t \in DOMAIN test_mapping :
                   /\ test_mapping[t].test = first.recommended_tests[j].test
                   /\ outcome.outputs.test_probabilities[t] = first.recommended_tests[j].confidence
          /\ \A j \in 1..Len(first.recommended_medications) :
                \E m \in DOMAIN medication_mapping :
                   /\ medication_mapping[m].medication = first.recommended_medications[j].medication
                   /\ outcome.outputs.medication_probabilities[m]
                         = first.recommended_medications[j].confidence

C16_Witness ==
    /\ ScoredReturned
    /\ Len(outcome.result) = 3
    /\ Len(outcome.result[1].recommended_tests) >= 2
    /\ Len(outcome.result[1].recommended_medications) = 2
    /\ outcome.result[3].recommended_tests = outcome.result[1].recommended_tests

\* one of the two term encoders has been run on its own
TermEncoderCalled == direct.op \in {"preprocess_symptoms", "preprocess_pmh"}
vocab_of(op) == IF op = "preprocess_symptoms" THEN common_symptoms ELSE common_conditions
partial_of(op) == IF op = "preprocess_symptoms" THEN (7 * Scale) \div 10 ELSE (8 * Scale) \div 10

\* vocabulary positions equal to, and related by substring to, the cleaned term
same_as(vocab, term) == {k \in 1..Len(vocab) : vocab[k] = strip(lower(term))}
related_to(vocab, term) ==
    {k \in 1..Len(vocab) : contains(vocab[k], strip(lower(term))) \/ contains(strip(lower(term)), vocab[k])}

\* C17: a term that is not a vocabulary term sets only the slot of the first
\* vocabulary term, in construction order, that contains it or is contained
\* in it, to 0.7 (symptoms) or 0.8 (history); no later related term is
\* written, and a term related to no vocabulary term writes nothing.
C17_FirstRelatedTermOnly ==
    (TermEncoderCalled /\ direct.ret.exc = "none") =>
       LET vocab == vocab_of(direct.op)
           terms == direct.arg
           vec == direct.ret.val
           target(i) == LET same == same_as(vocab, terms[i])
                            rel == related_to(vocab, terms[i])
                        IN IF same # {} THEN same
                           ELSE {k \in rel : \A j \in rel : k <= j}
           targets == UNION {target(i) : i \in 1..Len(terms)}
       IN /\ Len(vec) = Len(vocab)
          /\ \A k \in 1..Len(vocab) :
                /\ vec[k] \in {0, partial_of(direct.op), Scale}
                /\ vec[k] # 0 <=> k \in targets
          /\ (Len(terms) = 1 /\ same_as(vocab, terms[1]) = {}) =>
                \A k \in 1..Len(vocab) :
                   vec[k] = IF k \in targets THEN partial_of(direct.op) ELSE 0

\* "pain" is contained in "chest pain", "abdominal pain", "joint pain" and
\* "muscle pain"; only "chest pain" is written
C17_Witness ==
    /\ direct.op = "preprocess_symptoms"
    /\ direct.arg = << t_pain >>
    /\ Cardinality(related_to(common_symptoms, t_pain)) = 4
    /\ direct.ret.val[9] = (7 * Scale) \div 10
    /\ direct.ret.val[10] = 0

\* an entry of a symptom or history list that carries a term
well_formed(term) == IsStr(term) /\ strip(term) # << >>

\* C18: entries that are not strings, or are empty or whitespace-only
\* strings, are skipped: the encoders do not fail on them and give the
\* vector of the list without them, so such entries set no slot.
C18_MalformedEntriesSkipped ==
    TermEncoderCalled =>
       LET kept == SelectSeq(direct.arg, well_formed)
           expected == IF direct.op = "preprocess_symptoms" THEN preprocess_symptoms(kept)
                       ELSE preprocess_pmh(kept)
       IN /\ direct.ret.exc = "none"
          /\ direct.ret.val = expected.val

\* C19: preprocess_text returns a vector of one fixed length, the size of
\* the keyword list, for every input; an empty or absent text gives the
\* all-zero vector of that same length.
C19_TextVectorFixedLength ==
    direct.op = "preprocess_text" =>
       /\ Len(direct.ret) = Len(medical_keywords)
       /\ direct.arg \in {PyNone, t_empty} => \A k \in 1..Len(direct.ret) : direct.ret[k] = 0

\* C20: the encoding is total and neutral on missing data: a missing
\* temperature, heart rate, systolic or diastolic pressure encodes to 0.0
\* without error, and the record with age 0, sex "other", no vitals, no
\* symptoms, no history and no text encodes to the vitals
\* [0.0, 0.5, 0.0, 0.0, 0.0, 0.0] followed by zeros only.
C20_MissingDataIsNeutral ==
    direct.op = "preprocess_input" =>
       LET data == direct.arg
           vec == direct.ret.val
       IN /\ direct.ret.exc = "none"
          /\ data.vital_temperature_c = NoneNum => vec[3] = 0
          /\ data.vital_heart_rate = NoneNum => vec[4] = 0
          /\ data.vital_blood_pressure_systolic = NoneNum => vec[5] = 0
          /\ data.vital_blood_pressure_diastolic = NoneNum => vec[6] = 0
          /\ (/\ data.age = 0
              /\ data.sex = "other"
              /\ data.vital_temperature_c = NoneNum
              /\ data.vital_heart_rate = NoneNum
              /\ data.vital_blood_pressure_systolic = NoneNum
              /\ data.vital_blood_pressure_diastolic = NoneNum)
             => /\ SubSeq(vec, 1, 6) = << 0, Scale \div 2, 0, 0, 0, 0 >>
                /\ \A k \in 7..Len(vec) : vec[k] = 0

\* C21: a predict call, with or without a model and whatever the input,
\* leaves the shared state of the predictor as it found it: the symptom and
\* history vocabularies, the three catalogs and the model are the same after
\* the call as before, and so is the record it was given.
C21_PredictKeepsSharedState ==
    [][ pc = "called" =>
          /\ preprocessor'.symptom_vocab = preprocessor.symptom_vocab
          /\ preprocessor'.pmh_vocab = preprocessor.pmh_vocab
          /\ icd10_mapping' = icd10_mapping
          /\ test_mapping' = test_mapping
          /\ medication_mapping' = medication_mapping
          /\ model' = model
          /\ input_data' = input_data ]_vars

\* a call on the scored path that ended in the except clause
C21_Witness ==
    /\ pc = "returned"
    /\ model.loaded
    /\ outcome.err # "none"
    /\ dict_len(icd10_mapping) > 0
    /\ preprocessor.symptom_vocab = symptom_vocab

\* the codes, tests or medications of a catalog, in index order
column(mapping, field) == [i \in 1..dict_len(mapping) |-> mapping[i - 1][field]]

\* C22: when a catalog query raises, the construction of the predictor
\* still completes and that catalog is the embedded table (the 4 codes
\* J18.9, R50.9, R51, R69; 3 tests; 3 medications); each catalog follows its
\* own query only, so a catalog whose query answered holds the rows of the
\* answer whatever happened to the other two.
C22_CatalogFallback ==
    predictor = "ready" =>
       /\ IF db_session.icd10.ok THEN icd10_mapping = enumerate(db_session.icd10.rows)
          ELSE column(icd10_mapping, "code") = << "J18.9", "R50.9", "R51", "R69" >>
       /\ IF db_session.test.ok THEN test_mapping = enumerate(db_session.test.rows)
          ELSE column(test_mapping, "test")
                  = << "Complete Blood Count (CBC)", "Chest X-ray (PA/AP)", "Basic Metabolic Panel" >>
       /\ IF db_session.medication.ok THEN medication_mapping = enumerate(db_session.medication.rows)
          ELSE column(medication_mapping, "medication") = << "Acetaminophen", "Ibuprofen", "Amoxicillin" >>

\* the test query raised, the other two answered
C22_Witness ==
    /\ predictor = "ready"
    /\ ~db_session.test.ok
    /\ db_session.icd10.ok
    /\ db_session.medication.ok
    /\ dict_len(test_mapping) = 3
    /\ icd10_mapping = enumerate(db_session.icd10.rows)

\* a vocabulary maps its terms one-to-one onto the slots 0..N-1
dense_injective(vocab) ==
    /\ \A t, u \in DOMAIN vocab : vocab[t] = vocab[u] => t = u
    /\ {vocab[t] : t \in DOMAIN vocab} = 0..(Cardinality(DOMAIN vocab) - 1)

\* C23: each vocabulary maps its terms one-to-one onto the slots 0..N-1
\* and is never changed once built, and whenever an entry of a list is,
\* after cleaning, a vocabulary term, the encoding sets the slot the
\* vocabulary gives that term, the same in every encoding of every list.
C23_SlotStability ==
    /\ [](/\ dense_injective(preprocessor.symptom_vocab)
          /\ dense_injective(preprocessor.pmh_vocab)
          /\ (TermEncoderCalled /\ direct.ret.exc = "none") =>
                LET vocab == IF direct.op = "preprocess_symptoms" THEN preprocessor.symptom_vocab
                             ELSE preprocessor.pmh_vocab
                IN /\ Len(direct.ret.val) = Cardinality(DOMAIN vocab)
                   /\ \A i \in 1..Len(direct.arg) :
                         strip(lower(direct.arg[i])) \in DOMAIN vocab
                            => direct.ret.val[vocab[strip(lower(direct.arg[i]))] + 1] # 0)
    /\ [][/\ preprocessor'.symptom_vocab = preprocessor.symptom_vocab
          /\ preprocessor'.pmh_vocab = preprocessor.pmh_vocab]_vars

\* "cough" and " Cough " in one list, both on slot 1
C23_Witness ==
    /\ direct.op = "preprocess_symptoms"
    /\ direct.arg = << s_Cough_sp, s_cough >>
    /\ preprocessor.symptom_vocab[s_cough] = 1
    /\ direct.ret.val[2] = Scale

\* C24: a feedback that was stored adds a training sample
\* (training_data_added = true) when the doctor's confidence is at least 0.8,
\* also when it confirms a stored prediction as accurate, and adds none when
\* the confidence is below 0.8.
C24_ConfidentFeedbackTrains ==
    (reply.op = "submit_prediction_feedback" /\ reply.status = 200) =>
       (reply.ret.training_data_added <=> reply.arg.confidence_in_feedback >= 80)

\* C25: for a preprocessor that was not fitted, get_feature_dim() is the
\* length of the vector preprocess_input returns, for every record.
C25_FeatureDimIsVectorLength ==
    (direct.op = "preprocess_input" /\ direct.ret.exc = "none" /\ ~preprocessor.is_fitted) =>
       Len(direct.ret.val) = get_feature_dim(preprocessor)

\* C26: for the same record the serve-time encoder (preprocess_input) and
\* the train-time encoder (_process_single_sample) give vectors of the same
\* length and layout, and the same encoding of sex and age: male 0.0,
\* female 1.0, age / 100.
C26_TrainServeParity ==
    (direct.op = "process_single_sample" /\ preprocess_input(direct.arg).exc = "none") =>
       LET served == preprocess_input(direct.arg).val
           trained == direct.ret
       IN /\ Len(trained) = Len(served)
          /\ trained[1] * Scale = served[1] * TrainScale
          /\ trained[2] * Scale = served[2] * TrainScale
          /\ served[1] * 100 = direct.arg.age * Scale
          /\ direct.arg.sex = "male" => served[2] = 0
          /\ direct.arg.sex = "female" => served[2] = Scale

count_of(rows, condition) == BagCardinality(of_condition(rows, condition))

C29_FallbackCodesDistinct ==
    FallbackReturned =>
       \A i, j \in 1..Len(outcome.result) :
          i # j => outcome.result[i].icd10_code # outcome.result[j].icd10_code

\* C30: the predictions the fallback engine returns are ranked; their
\* confidences do not increase from first to last.
C30_FallbackRanked ==
    FallbackReturned =>
       \A i \in 1..Len(outcome.result) - 1 :
          outcome.result[i].confidence >= outcome.result[i + 1].confidence

====
